---------------------------- MODULE Spec2Model ----------------------------
(***************************************************************************)
(* A model of the zebra-epl2-printer label builder: the EAN-13 codec       *)
(* (barcode.rs), the bit-packing codec (epl.rs, lib.rs), the barcode       *)
(* centering helpers (builder.rs, lib.rs) and the three label build entry  *)
(* points (builder.rs, lib.rs) with the EPL2 byte stream they return.      *)
(*                                                                         *)
(* A Rust String is a sequence of code points and a Vec<u8> a sequence of  *)
(* byte values, both written as sequences of integers: "N" is <<78>>.      *)
(***************************************************************************)
EXTENDS Integers, Sequences, FiniteSets, TLC

VARIABLES
    code,        \* EAN codec: the String about to be handed to normalize_ean13
    edits,       \* EAN codec: how many edits made the input out of its seed
    ean_calls,   \* EAN codec: the calls made so far, each [in, out]
    img,         \* packing: the ImageBuffer being packed
    puts,        \* packing: how many put_pixel calls built the image
    pack,        \* packing: the position and the buffers of the packing call
    center,      \* centering: the last centering call, [fn, R, narrow, out]
    build_in,    \* build: the arguments and environment of a build call
    build_out,   \* build: what the call returned, [pc, segs, stream]
    render,      \* rasterizer: a call of a render function, its arguments and bitmap
    shape,       \* shaping: a call of bidi_then_shape, its text, runs and result
    prn          \* printer: the position of send_raw_to_printer and the spooler calls made

vars == <<code, edits, ean_calls, img, puts, pack, center, build_in, build_out,
          render, shape, prn>>

(***************************************************************************)
(* Generic helpers.                                                        *)
(***************************************************************************)
Min(a, b) == IF a <= b THEN a ELSE b
Max(a, b) == IF a >= b THEN a ELSE b

\* Rust's integer division truncates toward zero (TLA+'s \div floors).
TruncDiv(a, b) == IF a >= 0 THEN a \div b ELSE -((-a) \div b)

\* A sequence of decimal digit values as the ASCII string of those digits.
Digits(ds) == [i \in 1..Len(ds) |-> 48 + ds[i]]

(***************************************************************************)
(* EAN-13 codec (barcode.rs).                                              *)
(***************************************************************************)
\* Result<_, String>: ok with a value, or an error message.
Ok(v) == [ok |-> TRUE, val |-> v, err |-> ""]
Err(m) == [ok |-> FALSE, val |-> <<>>, err |-> m]

\* char::is_ascii_digit, char::to_digit(10) on an ASCII digit, char::from_digit
IsAsciiDigit(c) == c \in 48..57
ToDigit(c) == c - 48
FromDigit(d) == 48 + d

\* The loop of compute_ean13_checksum over digits.chars().enumerate(): index i
\* is 0-based, the sequence 1-based.
RECURSIVE ChecksumLoop(_, _, _)
ChecksumLoop(digits, i, sum) ==
    IF i >= Len(digits) THEN sum
    ELSE LET d == ToDigit(digits[i + 1])
         IN  ChecksumLoop(digits, i + 1,
                          IF i % 2 = 0 THEN sum + d ELSE sum + d * 3)

\* The same loop with the weights exchanged (3 at even indices).
RECURSIVE ChecksumLoopSwapped(_, _, _)
ChecksumLoopSwapped(digits, i, sum) ==
    IF i >= Len(digits) THEN sum
    ELSE LET d == ToDigit(digits[i + 1])
         IN  ChecksumLoopSwapped(digits, i + 1,
                                 IF i % 2 = 0 THEN sum + d * 3 ELSE sum + d)

compute_ean13_checksum_swapped(digits) ==
    IF Len(digits) # 12 \/ ~(\A i \in 1..Len(digits) : IsAsciiDigit(digits[i]))
    THEN Err("EAN13 checksum requires 12 digits")
    ELSE LET sum == ChecksumLoopSwapped(digits, 0, 0)
             modulo == sum % 10
             check == IF modulo = 0 THEN 0 ELSE 10 - modulo
         IN  [ok |-> TRUE, val |-> check, err |-> ""]

compute_ean13_checksum(digits) ==
    IF Len(digits) # 12 \/ ~(\A i \in 1..Len(digits) : IsAsciiDigit(digits[i]))
    THEN Err("EAN13 checksum requires 12 digits")
    ELSE LET sum == ChecksumLoop(digits, 0, 0)
             modulo == sum % 10
             check == IF modulo = 0 THEN 0 ELSE 10 - modulo
         IN  [ok |-> TRUE, val |-> check, err |-> ""]

\* retain() that keeps every character.
RetainAll(s) == s

\* code.retain(|c| c.is_ascii_digit())
RetainDigits(s) == SelectSeq(s, IsAsciiDigit)

\* normalize_ean13 once the input has been filtered.
NormalizeFiltered(c) ==
    IF Len(c) = 12
    THEN LET check == compute_ean13_checksum(c)
         IN  IF ~check.ok THEN Err(check.err)
             ELSE Ok(Append(c, FromDigit(check.val)))
    ELSE IF Len(c) = 13
    THEN LET prefix == SubSeq(c, 1, 12)
             expected == compute_ean13_checksum(prefix)
             last == ToDigit(c[Len(c)])
         IN  IF ~expected.ok THEN Err(expected.err)
             ELSE IF expected.val = last THEN Ok(c)
             ELSE Err("invalid checksum")
    ELSE Err("barcode must have 12 or 13 digits")

\* normalize_ean13 that validates a 13-digit input against the checksum of
\* its LAST 12 digits.
normalize_ean13_tail(s) ==
    LET c == RetainDigits(s)
    IN  IF Len(c) = 13
        THEN LET expected == compute_ean13_checksum(SubSeq(c, 2, 13))
             IN  IF expected.val = ToDigit(c[13]) THEN Ok(c)
                 ELSE Err("invalid checksum")
        ELSE NormalizeFiltered(c)

\* normalize_ean13 that accepts every 13-digit input.
normalize_ean13_lax(s) ==
    LET c == RetainDigits(s)
    IN  IF Len(c) = 13 THEN Ok(c) ELSE NormalizeFiltered(c)

normalize_ean13(s) == NormalizeFiltered(RetainDigits(s))

(***************************************************************************)
(* The codec's callers: an input string is one of EanSeeds changed by at   *)
(* most MaxEdits single-character edits; it is normalized, and an Ok       *)
(* result is handed back in once more (the round trip).                    *)
(***************************************************************************)
MaxEdits == 1

\* '-', ' ' and U+0663 ARABIC-INDIC DIGIT THREE (a digit, but not ASCII)
Separators == {45, 32, 1635}
EanAlphabet == (48..57) \cup Separators
\* what InsertChar inserts: a separator, '0' or '7'
EanInserted == Separators \cup {48, 55}

EanSeeds ==
    { Digits(<<4,0,0,6,3,8,1,3,3,3,9,3>>),
      Digits(<<4,0,0,6,3,8,1,3,3,3,9,3,1>>),
      Digits(<<4,0,0,6,3,8,1,3,3,3,9>>),
      Digits(<<4,0,0,6,3,8,1,3,3,3,9,3,1,0>>),
      <<>>,
      \* "978-0-306-40615-7"
      <<57,55,56,45,48,45,51,48,54,45,52,48,54,49,53,45,55>> }

InitIdle ==
    /\ code = <<>>
    /\ edits = 0
    /\ ean_calls = <<>>
    /\ img = [w |-> 0, h |-> 0, bg |-> 255, put |-> <<>>]
    /\ puts = 0
    /\ pack = [pc |-> "idle"]
    /\ center = [fn |-> "none"]
    /\ build_in = [entry |-> "none"]
    /\ build_out = [pc |-> "idle"]
    /\ render = [pc |-> "idle"]
    /\ shape = [pc |-> "idle"]
    /\ prn = [pc |-> "idle"]

InitEan ==
    /\ code \in EanSeeds
    /\ edits = 0
    /\ ean_calls = <<>>
    /\ img = [w |-> 0, h |-> 0, bg |-> 255, put |-> <<>>]
    /\ puts = 0
    /\ pack = [pc |-> "idle"]
    /\ center = [fn |-> "none"]
    /\ build_in = [entry |-> "none"]
    /\ build_out = [pc |-> "idle"]
    /\ render = [pc |-> "idle"]
    /\ shape = [pc |-> "idle"]
    /\ prn = [pc |-> "idle"]

NotEan == <<img, puts, pack, center, build_in, build_out, render, shape, prn>>

SetChar(i, c) ==
    /\ ean_calls = <<>> /\ edits < MaxEdits
    /\ i \in 1..Len(code)
    /\ code' = [code EXCEPT ![i] = c]
    /\ edits' = edits + 1
    /\ UNCHANGED <<ean_calls, NotEan>>

InsertChar(i, c) ==
    /\ ean_calls = <<>> /\ edits < MaxEdits
    /\ i \in 0..Len(code)
    /\ code' = SubSeq(code, 1, i) \o <<c>> \o SubSeq(code, i + 1, Len(code))
    /\ edits' = edits + 1
    /\ UNCHANGED <<ean_calls, NotEan>>

DeleteChar(i) ==
    /\ ean_calls = <<>> /\ edits < MaxEdits
    /\ i \in 1..Len(code)
    /\ code' = SubSeq(code, 1, i - 1) \o SubSeq(code, i + 1, Len(code))
    /\ edits' = edits + 1
    /\ UNCHANGED <<ean_calls, NotEan>>

\* normalize_ean13(code)
Normalize ==
    /\ ean_calls = <<>>
    /\ ean_calls' = <<[in |-> code, out |-> normalize_ean13(code)]>>
    /\ UNCHANGED <<code, edits, NotEan>>

\* normalize_ean13(s) on the Ok(s) the first call returned
Revalidate ==
    /\ Len(ean_calls) = 1
    /\ ean_calls[1].out.ok
    /\ code' = ean_calls[1].out.val
    /\ ean_calls' = Append(ean_calls, [in |-> code', out |-> normalize_ean13(code')])
    /\ UNCHANGED <<edits, NotEan>>

NextEan ==
    \/ \E i \in 1..Len(code), c \in EanAlphabet : SetChar(i, c)
    \/ \E i \in 0..Len(code), c \in EanInserted : InsertChar(i, c)
    \/ \E i \in 1..Len(code) : DeleteChar(i)
    \/ Normalize
    \/ Revalidate

SpecEan == InitEan /\ [][NextEan]_vars

(***************************************************************************)
(* What the EAN-13 claims say, stated without the codec's own definitions. *)
(***************************************************************************)
\* the ASCII digits of s, in order
RECURSIVE AsciiDigitsOf(_)
AsciiDigitsOf(s) ==
    IF s = <<>> THEN <<>>
    ELSE IF Head(s) >= 48 /\ Head(s) <= 57
         THEN <<Head(s)>> \o AsciiDigitsOf(Tail(s))
         ELSE AsciiDigitsOf(Tail(s))

IsDigitString(s, n) == Len(s) = n /\ \A i \in 1..n : s[i] >= 48 /\ s[i] <= 57

\* the digit at 0-based index i of digit string d
Dv(d, i) == d[i + 1] - 48

\* c = (10 - (S mod 10)) mod 10, S = even indices weight 1 + odd indices weight 3
CheckDigitOf(d) ==
    LET S == (Dv(d,0) + Dv(d,2) + Dv(d,4) + Dv(d,6) + Dv(d,8) + Dv(d,10))
             + 3 * (Dv(d,1) + Dv(d,3) + Dv(d,5) + Dv(d,7) + Dv(d,9) + Dv(d,11))
    IN  (10 - (S % 10)) % 10

LengthError == [ok |-> FALSE, val |-> <<>>, err |-> "barcode must have 12 or 13 digits"]
ChecksumError == [ok |-> FALSE, val |-> <<>>, err |-> "invalid checksum"]

\* C1: every input with exactly 12 ASCII digits after the non-digits are
\* removed normalizes to Ok of those 12 digits followed by the check digit
\* (10 - (S mod 10)) mod 10; "400638133393" gives "4006381333931".
C1_TwelveDigitsGetCheckDigit ==
    \A k \in 1..Len(ean_calls) :
        LET d == AsciiDigitsOf(ean_calls[k].in)
        IN  /\ Len(d) = 12 =>
                ean_calls[k].out =
                    [ok |-> TRUE, val |-> d \o <<48 + CheckDigitOf(d)>>, err |-> ""]
            /\ ean_calls[k].in = <<52,48,48,54,51,56,49,51,51,51,57,51>> =>
                ean_calls[k].out.val = <<52,48,48,54,51,56,49,51,51,51,57,51,49>>

\* a 12-digit input other than the seeds has been normalized to 13 digits
C1_Witness ==
    /\ Len(ean_calls) >= 1
    /\ edits >= 1
    /\ IsDigitString(ean_calls[1].in, 12)
    /\ ean_calls[1].out.ok
    /\ ean_calls[1].out.val[13] # 48

\* C2: round trip: a 12-digit string d normalizes to Ok(s) with s of length
\* 13, and normalizing s again returns Ok(s) unchanged.
C2_RoundTrip ==
    (Len(ean_calls) >= 1 /\ IsDigitString(ean_calls[1].in, 12)) =>
        /\ ean_calls[1].out.ok
        /\ Len(ean_calls[1].out.val) = 13
        /\ Len(ean_calls) = 2 =>
              /\ ean_calls[2].in = ean_calls[1].out.val
              /\ ean_calls[2].out = [ok |-> TRUE, val |-> ean_calls[2].in, err |-> ""]

\* the result of normalizing a 12-digit string has been normalized again
C2_Witness ==
    /\ Len(ean_calls) = 2
    /\ IsDigitString(ean_calls[1].in, 12)
    /\ IsDigitString(ean_calls[2].in, 13)

\* C3: a 13-digit input is returned unchanged when its 13th digit is the
\* check digit of the first 12, and gets the checksum-mismatch error for every
\* other 13th digit; never a length error, never a modified string.
C3_ThirteenDigitsValidated ==
    \A k \in 1..Len(ean_calls) :
        LET s == ean_calls[k].in
        IN  IsDigitString(s, 13) =>
              IF Dv(s, 12) = CheckDigitOf(SubSeq(s, 1, 12))
              THEN ean_calls[k].out = [ok |-> TRUE, val |-> s, err |-> ""]
              ELSE ean_calls[k].out = ChecksumError

\* "4006381333931" with its last digit changed has been rejected
C3_Witness ==
    /\ Len(ean_calls) = 1
    /\ IsDigitString(ean_calls[1].in, 13)
    /\ SubSeq(ean_calls[1].in, 1, 12) = <<52,48,48,54,51,56,49,51,51,51,57,51>>
    /\ ean_calls[1].in[13] # 49
    /\ ean_calls[1].out = ChecksumError

\* C4: the outcome depends only on the ASCII digits of the input: non-digit
\* characters are dropped and never rejected (the input is treated as its
\* digit-only form), and a digit count other than 12 or 13 is the
\* invalid-length error.
C4_DecidesOnDigitCount ==
    \A k \in 1..Len(ean_calls) :
        LET d == AsciiDigitsOf(ean_calls[k].in)
        IN  /\ Len(d) \notin {12, 13} => ean_calls[k].out = LengthError
            /\ Len(d) = 12 =>
                 ean_calls[k].out =
                    [ok |-> TRUE, val |-> d \o <<48 + CheckDigitOf(d)>>, err |-> ""]
            /\ Len(d) = 13 =>
                 ean_calls[k].out =
                    IF Dv(d, 12) = CheckDigitOf(SubSeq(d, 1, 12))
                    THEN [ok |-> TRUE, val |-> d, err |-> ""]
                    ELSE ChecksumError

\* an input holding a non-ASCII digit among 12 ASCII digits has been accepted
C4_Witness ==
    /\ Len(ean_calls) = 1
    /\ \E i \in 1..Len(ean_calls[1].in) : ean_calls[1].in[i] = 1635
    /\ Len(AsciiDigitsOf(ean_calls[1].in)) = 12
    /\ ean_calls[1].out.ok

(***************************************************************************)
(* Bit-packing codec (epl.rs, lib.rs).                                     *)
(***************************************************************************)
\* ImageBuffer<Luma<u8>>: ImageBuffer::from_pixel(w, h, Luma([l])), and the
\* pixels written since by put_pixel (a function from <<x, y>> to a luma).
FromPixel(w, h, l) == [w |-> w, h |-> h, bg |-> l, put |-> <<>>]

PutPixel(im, x, y, l) ==
    [im EXCEPT !.put = [c \in (DOMAIN im.put) \cup {<<x, y>>} |->
                            IF c = <<x, y>> THEN l ELSE im.put[c]]]

GetPixel(im, x, y) ==
    IF <<x, y>> \in DOMAIN im.put THEN im.put[<<x, y>>] ELSE im.bg

\* const INVERT_BITS of consts.rs (used by epl.rs) and of lib.rs
consts_INVERT_BITS == TRUE
lib_INVERT_BITS == TRUE

\* let bpr = ((w + 7) / 8) as usize
Bpr(w) == (w + 7) \div 8

\* What the loop over x in 0..w ORs into the byte of column x: 1 << (7 - x % 8)
\* when the pixel is darker than 128.
PixelBit(im, x, y) ==
    IF x < im.w /\ GetPixel(im, x, y) < 128 THEN 2 ^ (7 - (x % 8)) ELSE 0

\* The same with bit 0 for the leftmost pixel: 1 << (x % 8).
PixelBitLsbFirst(im, x, y) ==
    IF x < im.w /\ GetPixel(im, x, y) < 128 THEN 2 ^ (x % 8) ELSE 0

\* Byte b of row y once the loops are done: the OR of its pixels' bits.
PackedByteLsbFirst(im, y, b) ==
    PixelBitLsbFirst(im, 8 * b, y) + PixelBitLsbFirst(im, 8 * b + 1, y)
    + PixelBitLsbFirst(im, 8 * b + 2, y) + PixelBitLsbFirst(im, 8 * b + 3, y)
    + PixelBitLsbFirst(im, 8 * b + 4, y) + PixelBitLsbFirst(im, 8 * b + 5, y)
    + PixelBitLsbFirst(im, 8 * b + 6, y) + PixelBitLsbFirst(im, 8 * b + 7, y)

PackedByte(im, y, b) ==
    PixelBit(im, 8 * b, y) + PixelBit(im, 8 * b + 1, y)
    + PixelBit(im, 8 * b + 2, y) + PixelBit(im, 8 * b + 3, y)
    + PixelBit(im, 8 * b + 4, y) + PixelBit(im, 8 * b + 5, y)
    + PixelBit(im, 8 * b + 6, y) + PixelBit(im, 8 * b + 7, y)

\* vec![0u8; bpr * h] after the loops over y and x: out[y * bpr + x / 8]
PackRows(im) ==
    LET bpr == Bpr(im.w)
    IN  [i \in 1..(bpr * im.h) |-> PackedByte(im, (i - 1) \div bpr, (i - 1) % bpr)]

\* for b in &mut out { *b = !*b; }
InvertAll(bytes) == [i \in 1..Len(bytes) |-> 255 - bytes[i]]

\* image_to_row_bytes of epl.rs and of lib.rs: (w, h, rows)
epl_image_to_row_bytes(im) ==
    LET out == PackRows(im)
    IN  [w |-> im.w, h |-> im.h,
         rows |-> IF consts_INVERT_BITS THEN InvertAll(out) ELSE out]

lib_image_to_row_bytes(im) ==
    LET out == PackRows(im)
    IN  [w |-> im.w, h |-> im.h,
         rows |-> IF lib_INVERT_BITS THEN InvertAll(out) ELSE out]

\* format!("{}", n) of an unsigned integer
\* (a u32 above i32::MAX is held as n - 2^32, and 2^32 = 429496729 * 10 + 6)
RECURSIVE Dec(_)
Dec(n) ==
    IF n < 0
    THEN LET t == n + 6
             r == t % 10
         IN  Dec(429496729 + ((t - r) \div 10)) \o <<48 + r>>
    ELSE IF n < 10 THEN <<48 + n>>
    ELSE Dec(n \div 10) \o <<48 + (n % 10)>>

CRLF == <<13, 10>>
Comma == <<44>>

\* format!("GW{},{},{},{}", x, y, bpr, h)
GwHeader(x, y, bpr, h) ==
    <<71, 87>> \o Dec(x) \o Comma \o Dec(y) \o Comma \o Dec(bpr) \o Comma \o Dec(h)

\* image_to_gw: header line, the packed rows as they are, CRLF
image_to_gw(x, y, im) ==
    GwHeader(x, y, Bpr(im.w), im.h) \o CRLF \o PackRows(im) \o CRLF

(***************************************************************************)
(* The packing codec's callers: an image of at most MaxImgW columns filled *)
(* with one luma and changed by at most MaxPuts put_pixel calls is packed  *)
(* by one of the three functions; the call is observed after its packing   *)
(* loops ("packed") and when it returns ("returned").                      *)
(***************************************************************************)
MaxImgW == 9
MaxPuts == 1
ImgHeights == {1, 2}
Lumas == {0, 127, 128, 255}
GwOrigins == {<<0, 0>>, <<125, 8>>}
PackPaths == {"epl_image_to_row_bytes", "lib_image_to_row_bytes", "image_to_gw"}

InitPack ==
    /\ code = <<>>
    /\ edits = 0
    /\ ean_calls = <<>>
    /\ \E w \in 1..MaxImgW, h \in ImgHeights, l \in {0, 255} : img = FromPixel(w, h, l)
    /\ puts = 0
    /\ pack = [pc |-> "idle"]
    /\ center = [fn |-> "none"]
    /\ build_in = [entry |-> "none"]
    /\ build_out = [pc |-> "idle"]
    /\ render = [pc |-> "idle"]
    /\ shape = [pc |-> "idle"]
    /\ prn = [pc |-> "idle"]

NotPack == <<code, edits, ean_calls, center, build_in, build_out, render, shape, prn>>

PutPx(x, y, l) ==
    /\ pack.pc = "idle" /\ puts < MaxPuts
    /\ img' = PutPixel(img, x, y, l)
    /\ puts' = puts + 1
    /\ UNCHANGED <<pack, NotPack>>

\* the packing loops of the three functions; image_to_gw has written its
\* header by then
PackLoop(path, o) ==
    /\ pack.pc = "idle"
    /\ pack' = [pc |-> "packed", path |-> path, out |-> PackRows(img),
                data |-> IF path = "image_to_gw"
                         THEN GwHeader(o[1], o[2], Bpr(img.w), img.h) \o CRLF
                         ELSE <<>>,
                origin |-> IF path = "image_to_gw" THEN o ELSE <<0, 0>>]
    /\ UNCHANGED <<img, puts, NotPack>>

\* the rest of the call, to its return value
PackReturn ==
    /\ pack.pc = "packed"
    /\ pack' =
         IF pack.path = "epl_image_to_row_bytes"
         THEN [pack EXCEPT !.pc = "returned", !.out = epl_image_to_row_bytes(img).rows]
         ELSE IF pack.path = "lib_image_to_row_bytes"
         THEN [pack EXCEPT !.pc = "returned", !.out = lib_image_to_row_bytes(img).rows]
         ELSE [pack EXCEPT !.pc = "returned",
                           !.data = image_to_gw(pack.origin[1], pack.origin[2], img)]
    /\ UNCHANGED <<img, puts, NotPack>>

NextPack ==
    \/ \E x \in 0..(img.w - 1), y \in 0..(img.h - 1), l \in Lumas : PutPx(x, y, l)
    \/ \E path \in PackPaths, o \in GwOrigins :
          (path = "image_to_gw" \/ o = <<0, 0>>) /\ PackLoop(path, o)
    \/ PackReturn

SpecPack == InitPack /\ [][NextPack]_vars

(***************************************************************************)
(* What the packing claims say.                                            *)
(***************************************************************************)
\* ceil(w / 8)
CeilDiv8(w) == CHOOSE n \in 0..w : 8 * n >= w /\ 8 * (n - 1) < w

\* bit k (0 = least significant) of byte b
BitOf(b, k) == (b \div (2 ^ k)) % 2

\* pixel (x, y) of the image being packed is ink (black)
IsInk(x, y) == GetPixel(img, x, y) < 128

\* the image-block payload a returned call produced
PayloadOf(p) ==
    IF p.path = "image_to_gw"
    THEN SubSeq(p.data,
                Len(GwHeader(p.origin[1], p.origin[2], CeilDiv8(img.w), img.h)) + 3,
                Len(p.data) - 2)
    ELSE p.out

\* C5: packing a w x h bitmap gives exactly h * ceil(w/8) bytes; before the
\* inversion, bit (7 - x mod 8) of byte y * ceil(w/8) + x div 8 is 1 iff pixel
\* (x, y) is ink, and the padding bits (columns >= w) of each row are 0.
C5_PackedLayout ==
    LET n == CeilDiv8(img.w)
    IN  /\ pack.pc \in {"packed", "returned"} => Len(pack.out) = img.h * n
        /\ pack.pc = "packed" =>
             \A y \in 0..(img.h - 1) : \A x \in 0..(8 * n - 1) :
                 BitOf(pack.out[y * n + (x \div 8) + 1], 7 - (x % 8))
                     = IF x < img.w /\ IsInk(x, y) THEN 1 ELSE 0

\* a 9-wide, 2-high bitmap with ink and no-ink in its second row is packed
C5_Witness ==
    /\ pack.pc = "packed"
    /\ img.w = 9 /\ img.h = 2
    /\ img.bg = 255
    /\ IsInk(8, 1)
    /\ pack.out = <<0, 0, 0, 128>>

\* C6: with inversion configured, every byte of every image-block payload is
\* the complement of the byte packed without inversion, for all three packing
\* paths; the row [ink x8, no-ink] gives [0x00, 0xFF].
C6_EveryPayloadInverted ==
    (pack.pc = "returned" /\ consts_INVERT_BITS /\ lib_INVERT_BITS) =>
        LET n == CeilDiv8(img.w)
            payload == PayloadOf(pack)
        IN  /\ Len(payload) = img.h * n
            /\ \A y \in 0..(img.h - 1) : \A x \in 0..(8 * n - 1) :
                 BitOf(payload[y * n + (x \div 8) + 1], 7 - (x % 8))
                     = IF x < img.w /\ IsInk(x, y) THEN 0 ELSE 1
            /\ (img.w = 9 /\ img.h = 1 /\ ~IsInk(8, 0)
                  /\ \A x \in 0..7 : IsInk(x, 0)) => payload = <<0, 255>>

(***************************************************************************)
(* Machine integers.  An overflowing +, - or * panics in a build with      *)
(* overflow checks (debug) and wraps in one without (release); which build *)
(* runs is part of the environment (`checks`).  A value is                 *)
(* [panic |-> BOOLEAN, val |-> Int].  TLC's integers are 32 bits wide, so   *)
(* a u32 above i32::MAX is held as the negative integer with the same 32   *)
(* bits (2^32 - 90 as -90); the arguments modelled are all below 2^31.     *)
(***************************************************************************)
Val(v) == [panic |-> FALSE, val |-> v]
Panic == [panic |-> TRUE, val |-> 0]

\* u32 a - b, for a, b < 2^31: below zero it panics or wraps to 2^32 + a - b,
\* held as a - b
SubU32(a, b, checks) ==
    IF a >= b THEN Val(a - b)
    ELSE IF checks THEN Panic ELSE Val(a - b)

\* u32 x / 2, also of a wrapped x: (2^32 + x) / 2 = 2^31 + floor(x / 2)
HalfU32(x) ==
    IF x >= 0 THEN x \div 2 ELSE 2147483647 + ((x \div 2) + 1)

(***************************************************************************)
(* Barcode centering (builder.rs, lib.rs).                                 *)
(***************************************************************************)
\* builder.rs: ((label_w as i32 - 95 * narrow as i32) / 2).max(0) as u32;
\* the casts keep the value of every argument below 2^31
center_x_for_ean13(label_w, narrow, checks) ==
    LET w == 95 * narrow
    IN  Val(Max(TruncDiv(label_w - w, 2), 0))

\* lib.rs: let w = 95 * narrow; (label_w - w) / 2, all in u32
center_x_for_ean13_single(label_w, narrow, checks) ==
    LET w == 95 * narrow
        diff == SubU32(label_w, w, checks)
    IN  IF diff.panic THEN Panic ELSE Val(HalfU32(diff.val))

\* lib.rs: let w = 95 * narrow; (column_w - w) / 2, all in u32
center_x_for_ean13_column(column_w, narrow, checks) ==
    LET w == 95 * narrow
        diff == SubU32(column_w, w, checks)
    IN  IF diff.panic THEN Panic ELSE Val(HalfU32(diff.val))

(***************************************************************************)
(* The centering helpers' callers: a region width of at most MaxRegion and *)
(* a module width of at most MaxNarrow, in a debug or a release build.     *)
(***************************************************************************)
MaxRegion == 450
MaxNarrow == 3
Regions == 0..MaxRegion

InitCenter == InitIdle

NotCenter == <<code, edits, ean_calls, img, puts, pack, build_in, build_out,
               render, shape, prn>>

CallCenterBuilder(R, n, checks) ==
    /\ center.fn = "none"
    /\ center' = [fn |-> "center_x_for_ean13", R |-> R, narrow |-> n,
                  checks |-> checks, out |-> center_x_for_ean13(R, n, checks)]
    /\ UNCHANGED NotCenter

CallCenterSingle(R, n, checks) ==
    /\ center.fn = "none"
    /\ center' = [fn |-> "center_x_for_ean13_single", R |-> R, narrow |-> n,
                  checks |-> checks, out |-> center_x_for_ean13_single(R, n, checks)]
    /\ UNCHANGED NotCenter

CallCenterColumn(R, n, checks) ==
    /\ center.fn = "none"
    /\ center' = [fn |-> "center_x_for_ean13_column", R |-> R, narrow |-> n,
                  checks |-> checks, out |-> center_x_for_ean13_column(R, n, checks)]
    /\ UNCHANGED NotCenter

NextCenter ==
    \E R \in Regions, n \in 1..MaxNarrow, checks \in BOOLEAN :
        \/ CallCenterBuilder(R, n, checks)
        \/ CallCenterSingle(R, n, checks)
        \/ CallCenterColumn(R, n, checks)

SpecCenter == InitCenter /\ [][NextCenter]_vars

\* C7: each of the three centering functions returns
\* max(0, (R - 95 * narrow) div 2) for every region width R >= 0 and module
\* width narrow >= 1, 0 when R < 95 * narrow; center(440, 2) = 125.
C7_CenterClamped ==
    center.fn # "none" =>
        /\ ~center.out.panic
        /\ center.out.val =
             IF center.R < 95 * center.narrow THEN 0
             ELSE (center.R - 95 * center.narrow) \div 2
        /\ (center.R = 440 /\ center.narrow = 2) => center.out.val = 125

(***************************************************************************)
(* The font engine (rusttype), at its interface: a font that parses or     *)
(* not, its vertical metrics, and for a laid-out text the pixels its       *)
(* glyphs cover.                                                           *)
(***************************************************************************)
\* vm.ascent.ceil() and vm.descent.floor() at scale px, for a font whose
\* ascent and descent are font.asc and font.desc percent of the em
Ascent(font, px) == (px * font.asc + 99) \div 100
Descent(font, px) == -((px * font.desc + 99) \div 100)

\* let line_h = (ascent - descent).ceil().max(30.0) as u32
LineHeight(font, px) == Max(Ascent(font, px) - Descent(font, px), 30)

\* The glyph pixels of a text laid out from point(0, ascent): [x, y, v] with
\* v the coverage in percent.  A text is known by its tight width tw only.
GlyphRun(tw) ==
    IF tw = 0 THEN {}
    ELSE { [x |-> 0, y |-> 3, v |-> 90], [x |-> tw - 1, y |-> 5, v |-> 90],
           [x |-> tw \div 2, y |-> 4, v |-> 60], [x |-> tw \div 3, y |-> 6, v |-> 40] }

\* glyphs.iter().rev().find_map(|g| g.pixel_bounding_box().map(|bb| bb.max.x))
\*     .unwrap_or(0.0).ceil() as u32
TightWidth(run) ==
    IF run = {} THEN 0
    ELSE 1 + (CHOOSE m \in {g.x : g \in run} : \A g \in run : g.x <= m)

\* One paint pass: font.layout(text, scale, point(ox, baseline + dy)) and
\* g.draw: the pixels above the coverage threshold that fall inside the image.
PaintPass(im, run, ox, dy, threshold) ==
    { <<g.x + ox, g.y + dy>> : g \in { r \in run : /\ r.v > threshold
                                                   /\ r.x + ox < im.w
                                                   /\ r.y + dy < im.h } }

\* img.put_pixel(px, py, Luma([0])) for every pixel of the set
PutAll(im, pixels) ==
    [im EXCEPT !.put = [c \in (DOMAIN im.put) \cup pixels |->
                            IF c \in pixels THEN 0 ELSE im.put[c]]]

(***************************************************************************)
(* Rasterizer (graphics.rs, lib.rs).                                       *)
(***************************************************************************)
\* graphics.rs render_arabic_line_tight_1bit(text, font, font_px, pad_lr),
\* the font parsed: two passes (0,0), (1,0), threshold 0.65
render_arabic_line_tight_1bit(run, font, px, pad_lr) ==
    LET line_h == LineHeight(font, px)
        text_w == TightWidth(run)
        w == Max(text_w + pad_lr * 2, 2)
        blank == FromPixel(w, line_h, 255)
    IN  PutAll(blank, PaintPass(blank, run, pad_lr, 0, 65)
                      \cup PaintPass(blank, run, pad_lr + 1, 0, 65))

\* graphics.rs rotate90: 90 degrees clockwise, (x, y) goes to (h - 1 - y, x)
rotate90(im) ==
    [w |-> im.h, h |-> im.w, bg |-> im.bg,
     put |-> [c \in { <<im.h - 1 - d[2], d[1]>> : d \in DOMAIN im.put } |->
                 im.put[<<c[2], im.h - 1 - c[1]>>]]]

\* lib.rs, the brand block of both build functions: scale 40, w = text_w + 4,
\* four passes (0,0), (1,0), (2,0), (0,1) from x = 2, threshold 0.5
render_brand(run, font) ==
    LET line_h == LineHeight(font, 40)
        text_w == TightWidth(run)
        w == Max(text_w + 4, 2)
        blank == FromPixel(w, line_h, 255)
    IN  PutAll(blank, PaintPass(blank, run, 2, 0, 50)
                      \cup PaintPass(blank, run, 3, 0, 50)
                      \cup PaintPass(blank, run, 4, 0, 50)
                      \cup PaintPass(blank, run, 2, 1, 50))

\* lib.rs lines 329-331: max_width.saturating_sub(price_w + min_gap + left_padding)
available_for_name_nogap(max_width, price_w) == Max(max_width - (price_w + 5), 0)

available_for_name(max_width, price_w) == Max(max_width - (price_w + 10 + 5), 0)

\* the passes of render_name_price_space_between, line 337
name_price_passes(bold) == IF bold THEN {0, 1} ELSE {0}

\* lib.rs render_name_price_space_between, lines 311-368: the bitmap after the
\* two painting loops, with the put_pixel calls each loop made.  The price is
\* laid out from x = 5 + dx in each pass; the name is laid out from
\* point(0, ascent) in every pass and moved right by name_x.
paint_name_price(name, price, font, px, max_width, bold) ==
    LET line_h == LineHeight(font, px)
        price_w == TightWidth(price)
        name_w_full == TightWidth(name)
        left_padding == 5
        name_w == Min(name_w_full, available_for_name(max_width, price_w))
        total_w == max_width
        blank == FromPixel(total_w, line_h, 255)
        price_px == UNION { PaintPass(blank, price, left_padding + dx, 0, 50) :
                              dx \in name_price_passes(bold) }
        name_x == total_w - name_w
        name_px == PaintPass(blank, name, name_x, 0, 50)
    IN  [img |-> PutAll(blank, price_px \cup name_px),
         price_px |-> price_px, name_px |-> name_px,
         price_w |-> price_w, name_w |-> name_w, name_x |-> name_x]

\* lib.rs render_name_price_space_between(name, price, font, font_px,
\* max_width, bold): (w, h, rows) of the composite bitmap
render_name_price_space_between(name, price, font, px, max_width, bold) ==
    lib_image_to_row_bytes(paint_name_price(name, price, font, px, max_width, bold).img)

(***************************************************************************)
(* Protocol encoder (epl.rs, lib.rs).  What a call appends to the buffer   *)
(* is a segment: [bytes, w, h], with w and h the size of the bitmap an     *)
(* image block was packed from (0 for a command line).                     *)
(***************************************************************************)
\* epl_line(buf, s): the line and CRLF
epl_epl_line(str) == [bytes |-> str \o CRLF, w |-> 0, h |-> 0]
lib_epl_line(str) == [bytes |-> str \o CRLF, w |-> 0, h |-> 0]

\* gw_bytes with bytes-per-row rounded down: w / 8.
lib_gw_bytes_floor(x, y, w, h, rows) ==
    [bytes |-> GwHeader(x, y, w \div 8, h) \o CRLF \o rows \o CRLF, w |-> w, h |-> h]

\* gw_bytes(buf, x, y, w, h, rows): header line, the rows, CRLF
epl_gw_bytes(x, y, w, h, rows) ==
    [bytes |-> GwHeader(x, y, Bpr(w), h) \o CRLF \o rows \o CRLF, w |-> w, h |-> h]

lib_gw_bytes(x, y, w, h, rows) ==
    [bytes |-> GwHeader(x, y, Bpr(w), h) \o CRLF \o rows \o CRLF, w |-> w, h |-> h]

\* the Vec<u8> after the segments were appended in order
RECURSIVE Flatten(_)
Flatten(segs) ==
    IF segs = <<>> THEN <<>> ELSE Head(segs).bytes \o Flatten(Tail(segs))

\* lib.rs ensure_valid_ean13: the first 12 ASCII digits, or the digits
\* padded on the right with '0' to 12 (format!("{:0<12}", digits))
ensure_valid_ean13(barcode) ==
    LET digits == SelectSeq(barcode, IsAsciiDigit)
    IN  IF Len(digits) >= 12 THEN SubSeq(digits, 1, 12)
        ELSE digits \o [i \in 1..(12 - Len(digits)) |-> 48]

(***************************************************************************)
(* builder.rs                                                              *)
(***************************************************************************)
builder_LABEL_W == 440
builder_LABEL_H == 320
builder_PAD_RIGHT == 10
builder_FONT_PX == 42
builder_DARKNESS == 5
builder_SPEED == 3
builder_NARROW == 2
builder_HEIGHT == 50
builder_LANDSCAPE == FALSE

\* format!("B{},{},{rot},1,{},{},{},B,\"{}\"", x, y, NARROW, 4, HEIGHT, barcode)
BuilderBarcode(x, y, rot, barcode) ==
    <<66>> \o Dec(x) \o Comma \o Dec(y) \o Comma \o Dec(rot) \o <<44, 49, 44>>
    \o Dec(builder_NARROW) \o Comma \o Dec(4) \o Comma \o Dec(builder_HEIGHT)
    \o <<44, 66, 44, 34>> \o barcode \o <<34>>

\* lines 50-54: N, q<LABEL_W>, Q<LABEL_H>,24, D<DARKNESS>, S<SPEED>
BuilderSetup ==
    << epl_epl_line(<<78>>),
       epl_epl_line(<<113>> \o Dec(builder_LABEL_W)),
       epl_epl_line(<<81>> \o Dec(builder_LABEL_H) \o <<44, 50, 52>>),
       epl_epl_line(<<68>> \o Dec(builder_DARKNESS)),
       epl_epl_line(<<83>> \o Dec(builder_SPEED)) >>

Returned(segs) == [panic |-> FALSE, segs |-> segs]
Panicked == [panic |-> TRUE, segs |-> <<>>]

\* build_two_product_label_clean_centered; `in` holds the font, the build
\* kind and, per product, the glyphs of its text line and its barcode
build_two_product_label_clean_centered(in) ==
    LET p1 == in.products[1]
        p2 == in.products[2]
        im1a == render_arabic_line_tight_1bit(p1.line, in.font, builder_FONT_PX, 3)
        im2a == render_arabic_line_tight_1bit(p2.line, in.font, builder_FONT_PX, 3)
        im1 == IF builder_LANDSCAPE THEN rotate90(im1a) ELSE im1a
        im2 == IF builder_LANDSCAPE THEN rotate90(im2a) ELSE im2a
        k1 == epl_image_to_row_bytes(im1)
        k2 == epl_image_to_row_bytes(im2)
        x1 == SubU32(builder_LABEL_W - builder_PAD_RIGHT, k1.w, in.checks)
        x2 == SubU32(builder_LABEL_W - builder_PAD_RIGHT, k2.w, in.checks)
        text1_y == 8
        bc1_y == text1_y + k1.h + 16
        text2_y == bc1_y + builder_HEIGHT + 26
        bc2_y == text2_y + k2.h + 16
        bx_center == center_x_for_ean13(builder_LABEL_W, builder_NARROW, in.checks)
    IN  IF ~in.font.ok \/ x1.panic \/ x2.panic \/ bx_center.panic THEN Panicked
        ELSE Returned(
          BuilderSetup
          \o (IF ~builder_LANDSCAPE
              THEN << epl_gw_bytes(x1.val, text1_y, k1.w, k1.h, k1.rows),
                      epl_epl_line(BuilderBarcode(bx_center.val, bc1_y, 0, p1.barcode)),
                      epl_gw_bytes(x2.val, text2_y, k2.w, k2.h, k2.rows),
                      epl_epl_line(BuilderBarcode(bx_center.val, bc2_y, 0, p2.barcode)) >>
              ELSE << epl_gw_bytes(text1_y, x1.val, k1.w, k1.h, k1.rows),
                      epl_epl_line(BuilderBarcode(bc1_y, bx_center.val, 1, p1.barcode)),
                      epl_gw_bytes(text2_y, x2.val, k2.w, k2.h, k2.rows),
                      epl_epl_line(BuilderBarcode(bc2_y, bx_center.val, 1, p2.barcode)) >>)
          \o << epl_epl_line(<<80, 49>>) >>)

(***************************************************************************)
(* lib.rs                                                                  *)
(***************************************************************************)
lib_LABEL_W == 440
lib_LABEL_H == 320
lib_FONT_PX == 36
lib_BOLD_STROKE == TRUE
lib_DARKNESS == 8
lib_SPEED == 2
lib_NARROW == 2
lib_HEIGHT == 35

\* format!("B{},{},0,E30,{},{},{},B,\"{}\"", x, y, NARROW, 3, HEIGHT, bc)
LibBarcode(x, y, bc) ==
    <<66>> \o Dec(x) \o Comma \o Dec(y) \o <<44, 48, 44, 69, 51, 48, 44>>
    \o Dec(lib_NARROW) \o Comma \o Dec(3) \o Comma \o Dec(lib_HEIGHT)
    \o <<44, 66, 44, 34>> \o bc \o <<34>>

\* The setup lines with D and S exchanged.
LibSetupSpeedFirst ==
    << lib_epl_line(<<78>>),
       lib_epl_line(<<113>> \o Dec(lib_LABEL_W)),
       lib_epl_line(<<81>> \o Dec(lib_LABEL_H) \o Comma \o Dec(24)),
       lib_epl_line(<<83>> \o Dec(lib_SPEED)),
       lib_epl_line(<<68>> \o Dec(lib_DARKNESS)) >>

\* lines 107-111 and 229-233: N, q<LABEL_W>, Q<LABEL_H>,24, D<DARKNESS>, S<SPEED>
LibSetup ==
    << lib_epl_line(<<78>>),
       lib_epl_line(<<113>> \o Dec(lib_LABEL_W)),
       lib_epl_line(<<81>> \o Dec(lib_LABEL_H) \o Comma \o Dec(24)),
       lib_epl_line(<<68>> \o Dec(lib_DARKNESS)),
       lib_epl_line(<<83>> \o Dec(lib_SPEED)) >>

\* The two halves with the brand mark drawn in the top half only.
TwoBrandHalvesOneBrand(brand_x, brand_y1, brand_y2, b, e1, e2) ==
    << lib_gw_bytes(brand_x, brand_y1, b.w, b.h, b.rows),
       lib_gw_bytes(e1.x, e1.y, e1.k.w, e1.k.h, e1.k.rows),
       lib_epl_line(LibBarcode(e1.bx, e1.by, e1.bc)),
       lib_gw_bytes(e2.x, e2.y, e2.k.w, e2.k.h, e2.k.rows),
       lib_epl_line(LibBarcode(e2.bx, e2.by, e2.bc)) >>

\* lines 113-123: top half, bottom half; b is the packed brand, e1 and e2
\* the placed cells [x, y, k (packed text), bx, by, bc]
TwoBrandHalves(brand_x, brand_y1, brand_y2, b, e1, e2) ==
    << lib_gw_bytes(brand_x, brand_y1, b.w, b.h, b.rows),
       lib_gw_bytes(e1.x, e1.y, e1.k.w, e1.k.h, e1.k.rows),
       lib_epl_line(LibBarcode(e1.bx, e1.by, e1.bc)),
       lib_gw_bytes(brand_x, brand_y2, b.w, b.h, b.rows),
       lib_gw_bytes(e2.x, e2.y, e2.k.w, e2.k.h, e2.k.rows),
       lib_epl_line(LibBarcode(e2.bx, e2.by, e2.bc)) >>

\* build_two_product_label_with_brand; `in` holds the font, the build kind,
\* the brand's glyphs and, per product, the glyphs of name and price and the
\* barcode
build_two_product_label_with_brand(in) ==
    LET p1 == in.products[1]
        p2 == in.products[2]
        bc1 == ensure_valid_ean13(p1.barcode)
        bc2 == ensure_valid_ean13(p2.barcode)
        b == lib_image_to_row_bytes(render_brand(in.brand, in.font))
        max_product_width == lib_LABEL_W - 20
        k1 == render_name_price_space_between(p1.name, p1.price, in.font, 52,
                                              max_product_width, lib_BOLD_STROKE)
        k2 == render_name_price_space_between(p2.name, p2.price, in.font, 52,
                                              max_product_width, lib_BOLD_STROKE)
        half_h == lib_LABEL_H \div 2
        brand_d == SubU32(lib_LABEL_W, b.w, in.checks)
        brand_x == HalfU32(brand_d.val)
        brand_y1 == 8
        brand_y2 == half_h + 8
        d1 == SubU32(lib_LABEL_W, k1.w, in.checks)
        d2 == SubU32(lib_LABEL_W, k2.w, in.checks)
        x1 == HalfU32(d1.val)
        x2 == HalfU32(d2.val)
        brand_to_text_gap == -6
        row_gap == 4
        text1_y == Max(brand_y1 + b.h + brand_to_text_gap, 0)
        bc1_y == Max(text1_y + k1.h + 4, 0)
        text2_y == Max(brand_y2 + b.h + brand_to_text_gap + row_gap, 0)
        bc2_y == Max(text2_y + k2.h + 4, 0)
        bx_center == center_x_for_ean13_single(lib_LABEL_W, lib_NARROW, in.checks)
    IN  IF ~in.font.ok \/ brand_d.panic \/ d1.panic \/ d2.panic \/ bx_center.panic
        THEN Panicked
        ELSE Returned(
          LibSetup
          \o TwoBrandHalves(brand_x, brand_y1, brand_y2, b,
               [x |-> x1, y |-> text1_y, k |-> k1,
                bx |-> bx_center.val, by |-> bc1_y, bc |-> bc1],
               [x |-> x2, y |-> text2_y, k |-> k2,
                bx |-> bx_center.val, by |-> bc2_y, bc |-> bc2])
          \o << lib_epl_line(<<80, 49>>) >>)

\* lines 235-253: one row of the grid: the brand mark per column, then the
\* left and the right cell
FourRow(brand_x_left, brand_x_right, brand_y, b, eL, eR) ==
    << lib_gw_bytes(brand_x_left, brand_y, b.w, b.h, b.rows),
       lib_gw_bytes(brand_x_right, brand_y, b.w, b.h, b.rows),
       lib_gw_bytes(eL.x, eL.y, eL.k.w, eL.k.h, eL.k.rows),
       lib_epl_line(LibBarcode(eL.bx, eL.by, eL.bc)),
       lib_gw_bytes(eR.x, eR.y, eR.k.w, eR.k.h, eR.k.rows),
       lib_epl_line(LibBarcode(eR.bx, eR.by, eR.bc)) >>

\* build_four_product_label_with_brand
build_four_product_label_with_brand(in) ==
    LET p == in.products
        bc == [i \in 1..4 |-> ensure_valid_ean13(p[i].barcode)]
        b == lib_image_to_row_bytes(render_brand(in.brand, in.font))
        quad_w == lib_LABEL_W \div 2
        quad_h == lib_LABEL_H \div 2
        gap == -2
        grid_offset_y == 18
        max_product_width == Max(quad_w - TruncDiv(gap, 2) - 10, 0)
        k == [i \in 1..4 |->
                render_name_price_space_between(p[i].name, p[i].price, in.font,
                    lib_FONT_PX, max_product_width, lib_BOLD_STROKE)]
        brand_x_left == Max(TruncDiv(quad_w - TruncDiv(gap, 2) - b.w, 2), 0)
        brand_x_right == Max(quad_w + TruncDiv(gap, 2) + TruncDiv(quad_w - b.w, 2), 0)
        brand_y_top == grid_offset_y + 4
        brand_y_bottom == Max(grid_offset_y + quad_h + TruncDiv(gap, 2) + 4, 0)
        xL(i) == Max(TruncDiv(quad_w - TruncDiv(gap, 2) - k[i].w, 2), 0)
        xR(i) == Max(quad_w + TruncDiv(gap, 2) + TruncDiv(quad_w - k[i].w, 2), 0)
        shift_up == 10
        text_top == SubU32(brand_y_top + b.h + 6, shift_up, in.checks)
        text_bottom == SubU32(brand_y_bottom + b.h + 6, shift_up, in.checks)
        col == center_x_for_ean13_column(Max(quad_w - TruncDiv(gap, 2), 0),
                                         lib_NARROW, in.checks)
        bc_left_x == Max(col.val + 4, 0)
        bc_right_x == Max(quad_w + TruncDiv(gap, 2) + col.val, 0)
    IN  IF ~in.font.ok \/ text_top.panic \/ text_bottom.panic \/ col.panic
        THEN Panicked
        ELSE Returned(
          LibSetup
          \o FourRow(brand_x_left, brand_x_right, brand_y_top, b,
               [x |-> xL(1), y |-> text_top.val, k |-> k[1],
                bx |-> bc_left_x, by |-> text_top.val + k[1].h + 3, bc |-> bc[1]],
               [x |-> xR(2), y |-> text_top.val, k |-> k[2],
                bx |-> bc_right_x, by |-> text_top.val + k[2].h + 3, bc |-> bc[2]])
          \o FourRow(brand_x_left, brand_x_right, brand_y_bottom, b,
               [x |-> xL(3), y |-> text_bottom.val, k |-> k[3],
                bx |-> bc_left_x, by |-> text_bottom.val + k[3].h + 3, bc |-> bc[3]],
               [x |-> xR(4), y |-> text_bottom.val, k |-> k[4],
                bx |-> bc_right_x, by |-> text_bottom.val + k[4].h + 3, bc |-> bc[4]])
          \o << lib_epl_line(<<80, 49>>) >>)

(***************************************************************************)
(* The build entry points' callers.  A call's arguments and environment:   *)
(* the font (one that parses, one that does not), a debug or release       *)
(* build, the brand text and the products, each text known by the tight    *)
(* width of its glyphs.                                                    *)
(***************************************************************************)
Fonts == { [ok |-> TRUE, asc |-> 60, desc |-> 15],
           [ok |-> FALSE, asc |-> 0, desc |-> 0] }

\* tight widths of the brand text; a width of 0 is a text without ink (blanks),
\* for which BidiInfo has a paragraph
BrandWidths == {0, 120, 450}

Product(name_w, price_w, barcode) ==
    [name |-> GlyphRun(name_w), price |-> GlyphRun(price_w),
     line |-> GlyphRun(name_w + 32 + price_w), barcode |-> barcode]

\* "400638133393", "590123412345", "12-34", and 40"<CR><LF>GW0,0,2,2<CR><LF>
Products ==
    << Product(120, 60, Digits(<<4,0,0,6,3,8,1,3,3,3,9,3>>)),
       Product(0, 60, Digits(<<5,9,0,1,2,3,4,1,2,3,4,5>>)),
       Product(500, 90, <<49, 50, 45, 51, 52>>),
       Product(200, 60, <<52, 48, 34, 13, 10, 71, 87, 48, 44, 48, 44, 50, 44, 50, 13, 10>>) >>

FourChoices == { <<1, 2, 3, 4>>, <<2, 1, 1, 2>>, <<4, 3, 2, 1>>, <<3, 3, 4, 4>> }

Entries == {"build_two_product_label_clean_centered",
            "build_two_product_label_with_brand",
            "build_four_product_label_with_brand"}

BuildInputs ==
    { [entry |-> "build_two_product_label_clean_centered", font |-> f, checks |-> c,
       brand |-> {}, products |-> <<Products[i], Products[j]>>] :
         f \in Fonts, c \in BOOLEAN, i \in 1..4, j \in 1..4 }
    \cup
    { [entry |-> "build_two_product_label_with_brand", font |-> f, checks |-> c,
       brand |-> GlyphRun(bw), products |-> <<Products[i], Products[j]>>] :
         f \in Fonts, c \in BOOLEAN, bw \in BrandWidths, i \in 1..4, j \in 1..4 }
    \cup
    { [entry |-> "build_four_product_label_with_brand", font |-> f, checks |-> c,
       brand |-> GlyphRun(bw),
       products |-> <<Products[q[1]], Products[q[2]], Products[q[3]], Products[q[4]]>>] :
         f \in Fonts, c \in BOOLEAN, bw \in BrandWidths, q \in FourChoices }
    \cup
    { [entry |-> "gw_bytes", font |-> f, checks |-> c,
       brand |-> {}, products |-> <<Products[i]>>] :
         f \in Fonts, c \in BOOLEAN, i \in 1..4 }

InitBuild ==
    /\ code = <<>>
    /\ edits = 0
    /\ ean_calls = <<>>
    /\ img = [w |-> 0, h |-> 0, bg |-> 255, put |-> <<>>]
    /\ puts = 0
    /\ pack = [pc |-> "idle"]
    /\ center = [fn |-> "none"]
    /\ build_in \in BuildInputs
    /\ build_out = [pc |-> "idle"]
    /\ render = [pc |-> "idle"]
    /\ shape = [pc |-> "idle"]
    /\ prn = [pc |-> "idle"]

NotBuild == <<code, edits, ean_calls, img, puts, pack, center, build_in,
              render, shape, prn>>

\* what a call leaves behind: that it returned or panicked, the segments it
\* appended and the buffer it returned
Outcome(r) ==
    [pc |-> IF r.panic THEN "panicked" ELSE "returned",
     segs |-> r.segs, stream |-> Flatten(r.segs)]

BuildTwoClean ==
    /\ build_out.pc = "idle"
    /\ build_in.entry = "build_two_product_label_clean_centered"
    /\ build_out' = Outcome(build_two_product_label_clean_centered(build_in))
    /\ UNCHANGED NotBuild

BuildTwoBrand ==
    /\ build_out.pc = "idle"
    /\ build_in.entry = "build_two_product_label_with_brand"
    /\ build_out' = Outcome(build_two_product_label_with_brand(build_in))
    /\ UNCHANGED NotBuild

BuildFour ==
    /\ build_out.pc = "idle"
    /\ build_in.entry = "build_four_product_label_with_brand"
    /\ build_out' = Outcome(build_four_product_label_with_brand(build_in))
    /\ UNCHANGED NotBuild

\* epl.rs gw_bytes on a bitmap that graphics.rs rotate90 turned before
\* epl.rs image_to_row_bytes packed it (the calls of builder.rs lines 30-35 and
\* 65), into an empty buffer
GwRotated ==
    /\ build_out.pc = "idle"
    /\ build_in.entry = "gw_bytes"
    /\ build_out' =
         IF ~build_in.font.ok THEN Outcome(Panicked)
         ELSE LET im == rotate90(render_arabic_line_tight_1bit(
                                    build_in.products[1].line, build_in.font,
                                    builder_FONT_PX, 3))
                  k == epl_image_to_row_bytes(im)
                  seg == epl_gw_bytes(8, 10, k.w, k.h, k.rows)
              IN  [pc |-> "emitted", segs |-> <<seg>>, stream |-> seg.bytes,
                   rotated |-> im]
    /\ UNCHANGED NotBuild

NextBuild == BuildTwoClean \/ BuildTwoBrand \/ BuildFour \/ GwRotated

SpecBuild == InitBuild /\ [][NextBuild]_vars

(***************************************************************************)
(* What the build claims say.  A command's kind is read off the first      *)
(* bytes of the segment the builder appended for it.                       *)
(***************************************************************************)
KindOf(seg) ==
    LET b == seg.bytes
    IN  IF Len(b) >= 2 /\ b[1] = 71 /\ b[2] = 87 THEN "GW"
        ELSE IF b[1] = 66 THEN "B"
        ELSE IF b[1] = 78 THEN "N"
        ELSE IF b[1] = 113 THEN "q"
        ELSE IF b[1] = 81 THEN "Q"
        ELSE IF b[1] = 68 THEN "D"
        ELSE IF b[1] = 83 THEN "S"
        ELSE IF b[1] = 80 THEN "P"
        ELSE "other"

Kinds == [i \in 1..Len(build_out.segs) |-> KindOf(build_out.segs[i])]
CountKind(k) == Cardinality({i \in DOMAIN Kinds : Kinds[i] = k})

\* N, q<width>, Q<height>,24, D, S first, each once; one P1, last, and
\* nothing after it
SetupFirstPrintLast ==
    LET segs == build_out.segs
        n == Len(segs)
        st == build_out.stream
    IN  /\ n >= 6
        /\ SubSeq(Kinds, 1, 5) = <<"N", "q", "Q", "D", "S">>
        /\ Kinds[n] = "P"
        /\ \A k \in {"N", "q", "Q", "D", "S", "P"} : CountKind(k) = 1
        /\ \A i \in 6..(n - 1) : Kinds[i] \in {"GW", "B"}
        /\ segs[1].bytes = <<78, 13, 10>>
        /\ segs[2].bytes = <<113, 52, 52, 48, 13, 10>>
        /\ segs[3].bytes = <<81, 51, 50, 48, 44, 50, 52, 13, 10>>
        /\ segs[n].bytes = <<80, 49, 13, 10>>
        /\ SubSeq(st, 1, 3) = <<78, 13, 10>>
        /\ SubSeq(st, Len(st) - 3, Len(st)) = <<80, 49, 13, 10>>

\* C8 as claimed: setup first, then all image blocks, then all barcode
\* commands, then one P1 last.
C8_ImagesThenBarcodes ==
    build_out.pc = "returned" =>
        /\ SetupFirstPrintLast
        /\ \A i, j \in DOMAIN Kinds : (i < j /\ Kinds[i] = "B") => Kinds[j] # "GW"

\* C8 as amended: setup first (N, q, Q, D, S, each once), one P1 last, and in
\* between only image blocks and barcode commands, cell by cell: the part
\* begins with an image block and every barcode command directly follows the
\* image block of its cell's text.
C8_SetupCellsPrint ==
    build_out.pc = "returned" =>
        /\ SetupFirstPrintLast
        /\ Kinds[6] = "GW"
        /\ Kinds[Len(Kinds) - 1] = "B"
        /\ \A i \in DOMAIN Kinds : Kinds[i] = "B" => Kinds[i - 1] = "GW"

\* a four-product label has been returned: 18 commands
C8_Witness ==
    /\ build_out.pc = "returned"
    /\ build_in.entry = "build_four_product_label_with_brand"
    /\ Len(build_out.segs) = 18
    /\ CountKind("B") = 4

\* both products of a two-product build carry a valid 12-digit barcode
TwoValidBarcodes ==
    /\ build_in.entry \in {"build_two_product_label_clean_centered",
                           "build_two_product_label_with_brand"}
    /\ IsDigitString(build_in.products[1].barcode, 12)
    /\ IsDigitString(build_in.products[2].barcode, 12)

\* C9 as claimed: a two-product label with valid 12-digit barcodes has
\* exactly two GW and two B commands (one q440, one Q320,24, N first, P1
\* last), for either two-product entry point.
C9_TwoImagesTwoBarcodes ==
    (build_out.pc = "returned" /\ TwoValidBarcodes) =>
        /\ SetupFirstPrintLast
        /\ CountKind("GW") = 2
        /\ CountKind("B") = 2

\* C9 as amended: the stream build_two_product_label_clean_centered returns
\* has exactly two GW and two B commands; the one
\* build_two_product_label_with_brand returns has exactly four GW commands
\* (per half the brand mark and the name/price bitmap) and two B commands.
C9_TwoCleanFourBrand ==
    (build_out.pc = "returned" /\ TwoValidBarcodes) =>
        /\ SetupFirstPrintLast
        /\ CountKind("B") = 2
        /\ CountKind("GW") =
             IF build_in.entry = "build_two_product_label_with_brand" THEN 4 ELSE 2
        /\ \A i \in DOMAIN Kinds : Kinds[i] = "B" =>
             \E j \in 1..2 :
                LET b == build_out.segs[i].bytes
                IN  SubSeq(b, Len(b) - 15, Len(b))
                      = <<34>> \o build_in.products[j].barcode \o <<34, 13, 10>>

\* a two-product label with brand marks and valid barcodes has been returned
C9_Witness ==
    /\ build_out.pc = "returned"
    /\ TwoValidBarcodes
    /\ build_in.entry = "build_two_product_label_with_brand"
    /\ build_in.products[1].barcode # build_in.products[2].barcode

(***************************************************************************)
(* The printer's reader of an image block: from the block's first byte it  *)
(* reads the header line, takes the declared bytes-per-row and height, and *)
(* skips that many payload bytes.                                          *)
(***************************************************************************)
\* the first position q >= p with CR LF at q, q + 1 (0 if there is none)
FindCRLF(st, p) ==
    IF \E q \in p..(Len(st) - 1) : st[q] = 13 /\ st[q + 1] = 10
    THEN CHOOSE q \in p..(Len(st) - 1) :
            /\ st[q] = 13 /\ st[q + 1] = 10
            /\ \A r \in p..(q - 1) : ~(st[r] = 13 /\ st[r + 1] = 10)
    ELSE 0

\* the comma-separated fields of a line
RECURSIVE SplitCommas(_, _)
SplitCommas(line, field) ==
    IF line = <<>> THEN <<field>>
    ELSE IF Head(line) = 44 THEN <<field>> \o SplitCommas(Tail(line), <<>>)
    ELSE SplitCommas(Tail(line), Append(field, Head(line)))

IsNumber(ds) == ds # <<>> /\ \A i \in 1..Len(ds) : ds[i] >= 48 /\ ds[i] <= 57

RECURSIVE ParseDec(_)
ParseDec(ds) ==
    IF ds = <<>> THEN 0
    ELSE 10 * ParseDec(SubSeq(ds, 1, Len(ds) - 1)) + (ds[Len(ds)] - 48)

ReadImageBlock(st, p) ==
    LET q == FindCRLF(st, p)
        line == SubSeq(st, p, q - 1)
        f == SplitCommas(SubSeq(line, 3, Len(line)), <<>>)
        wellformed == /\ q > 0
                      /\ Len(line) >= 2 /\ line[1] = 71 /\ line[2] = 87
                      /\ Len(f) = 4
                      /\ \A i \in 1..4 : IsNumber(f[i])
    IN  IF ~wellformed THEN [ok |-> FALSE, bpr |-> 0, h |-> 0, payload |-> 0, land |-> 0]
        ELSE [ok |-> TRUE, bpr |-> ParseDec(f[3]), h |-> ParseDec(f[4]),
              payload |-> q + 2,
              land |-> q + 2 + ParseDec(f[3]) * ParseDec(f[4])]

\* where segment k starts in the stream
RECURSIVE StartOf(_, _)
StartOf(segs, k) ==
    IF k = 1 THEN 1 ELSE StartOf(segs, k - 1) + Len(segs[k - 1].bytes)

\* C10: every image block of a returned stream has a header
\* GW<x>,<y>,<bytesPerRow>,<height> with bytesPerRow = ceil(width/8) and
\* height those of the bitmap packed, followed by exactly bytesPerRow * height
\* payload bytes and CRLF: the reader that skips the declared count lands on
\* that CRLF, right before the next command.
C10_DeclaredCountFramesPayload ==
    build_out.pc \in {"returned", "emitted"} =>
        \A k \in DOMAIN Kinds :
            Kinds[k] = "GW" =>
                LET st == build_out.stream
                    seg == build_out.segs[k]
                    start == StartOf(build_out.segs, k)
                    r == ReadImageBlock(st, start)
                IN  /\ r.ok
                    /\ r.bpr = CeilDiv8(seg.w)
                    /\ r.h = seg.h
                    /\ r.land + 1 <= Len(st)
                    /\ st[r.land] = 13 /\ st[r.land + 1] = 10
                    /\ r.land + 2 = start + Len(seg.bytes)
                    /\ r.land - r.payload = CeilDiv8(seg.w) * seg.h
                    /\ build_out.pc = "returned" =>
                          /\ k < Len(Kinds)
                          /\ r.land + 2 = StartOf(build_out.segs, k + 1)
                    /\ build_out.pc = "emitted" =>
                          /\ seg.w = build_out.rotated.w
                          /\ seg.h = build_out.rotated.h

\* the image block of a 454 pixels wide brand bitmap (57 bytes per row) has
\* been emitted
C10_Witness ==
    /\ build_out.pc = "returned"
    /\ \E k \in DOMAIN Kinds :
          /\ Kinds[k] = "GW"
          /\ build_out.segs[k].w = 454
          /\ ReadImageBlock(build_out.stream, StartOf(build_out.segs, k)).bpr = 57

(***************************************************************************)
(* Calls of the render functions.  A text is given by the tight width of   *)
(* its glyph run; the widths are chosen around the paddings, the gap and   *)
(* the widths the build functions pass (420 and 211).                      *)
(***************************************************************************)
NameWidths == {0, 1, 30, 200, 500}
PriceWidths == {0, 1, 24, 60, 230}
MaxWidths == {0, 1, 30, 40, 211, 420}
LineWidths == {0, 1, 30, 200}
RenderPx == {36, 52}

InitRender == InitIdle

NotRender == <<code, edits, ean_calls, img, puts, pack, center, build_in, build_out,
               shape, prn>>

\* render_name_price_space_between up to the end of its painting loops
RenderNamePrice(nw, pw, mw, px, bold, font) ==
    /\ render.pc = "idle"
    /\ render' =
         IF ~font.ok THEN [pc |-> "panicked", fn |-> "render_name_price_space_between"]
         ELSE [pc |-> "painted", fn |-> "render_name_price_space_between",
               name |-> GlyphRun(nw), price |-> GlyphRun(pw), max_width |-> mw,
               bold |-> bold, font |-> font, px |-> px,
               painted |-> paint_name_price(GlyphRun(nw), GlyphRun(pw), font, px, mw, bold)]
    /\ UNCHANGED NotRender

\* its last line: image_to_row_bytes(&img)
RenderNamePriceReturn ==
    /\ render.pc = "painted"
    /\ render' = [pc |-> "returned", fn |-> render.fn,
                  name |-> render.name, price |-> render.price,
                  max_width |-> render.max_width, bold |-> render.bold,
                  font |-> render.font, px |-> render.px, painted |-> render.painted,
                  out |-> render_name_price_space_between(
                              render.name, render.price, render.font,
                              render.px, render.max_width, render.bold)]
    /\ UNCHANGED NotRender

\* graphics.rs render_arabic_line_tight_1bit
RenderLine(tw, px, pad_lr, font) ==
    /\ render.pc = "idle"
    /\ render' =
         IF ~font.ok THEN [pc |-> "panicked", fn |-> "render_arabic_line_tight_1bit"]
         ELSE [pc |-> "line", fn |-> "render_arabic_line_tight_1bit",
               text |-> GlyphRun(tw), pad_lr |-> pad_lr, font |-> font, px |-> px,
               img |-> render_arabic_line_tight_1bit(GlyphRun(tw), font, px, pad_lr)]
    /\ UNCHANGED NotRender

NextRender ==
    \/ \E nw \in NameWidths, pw \in PriceWidths, mw \in MaxWidths, px \in RenderPx,
          bold \in BOOLEAN, font \in Fonts : RenderNamePrice(nw, pw, mw, px, bold, font)
    \/ RenderNamePriceReturn
    \/ \E tw \in LineWidths, px \in RenderPx, pad_lr \in {0, 3}, font \in Fonts :
          RenderLine(tw, px, pad_lr, font)

SpecRender == InitRender /\ [][NextRender]_vars

(***************************************************************************)
(* What the name/price claim says.                                         *)
(***************************************************************************)
InkOf(im) == { c \in DOMAIN im.put : im.put[c] < 128 }

NamePriceCall ==
    /\ render.pc \in {"painted", "returned"}
    /\ render.fn = "render_name_price_space_between"

\* the ink pixels of the price's glyphs, laid out from the left padding in
\* each pass, before any clipping
PriceInkWanted ==
    { <<g.x + 5 + dx, g.y>> :
        g \in { r \in render.price : r.v > 50 },
        dx \in (IF render.bold THEN {0, 1} ELSE {0}) }

WidthWithinMax ==
    /\ render.painted.img.w <= render.max_width
    /\ render.pc = "returned" =>
          /\ render.out.w <= render.max_width
          /\ Len(render.out.rows) = CeilDiv8(render.out.w) * render.out.h

NameRightOfGap ==
    \A c \in render.painted.name_px :
        /\ c[1] >= render.painted.price_w + 5 + 10
        /\ c \in InkOf(render.painted.img)

\* C11 as claimed: for every name width, price width and max_width the
\* composite is at most max_width wide, no price ink pixel is clipped, and
\* no name ink pixel lies left of price_w + left_padding + min_gap.
C11_PriceNeverClipped ==
    NamePriceCall =>
        /\ WidthWithinMax
        /\ PriceInkWanted \subseteq InkOf(render.painted.img)
        /\ NameRightOfGap

\* C11 as amended: the composite is exactly max_width wide; no name ink
\* pixel lies left of price_w + left_padding + min_gap; the price keeps all
\* its ink when price_w + left_padding (+ 1 with bold) fits in max_width, and
\* otherwise loses exactly the ink in the columns from max_width on.
C11_PriceClippedAtMaxWidth ==
    NamePriceCall =>
        /\ WidthWithinMax
        /\ render.painted.img.w = render.max_width
        /\ NameRightOfGap
        /\ render.painted.price_px =
              { c \in PriceInkWanted : c[1] < render.max_width }
        /\ render.painted.price_px \subseteq InkOf(render.painted.img)
        /\ (render.painted.price_w + 5 + (IF render.bold THEN 1 ELSE 0)
               <= render.max_width)
              => PriceInkWanted \subseteq InkOf(render.painted.img)

\* a name of 200 pixels next to a price of 60 in a cell of 211: the name got
\* the remaining 136 columns and its ink starts right of the gap
C11_Witness ==
    /\ NamePriceCall
    /\ render.pc = "returned"
    /\ render.max_width = 211
    /\ render.painted.price_w = 60
    /\ render.painted.name_w = 136
    /\ TightWidth(render.name) = 200
    /\ <<75, 3>> \in render.painted.name_px
    /\ PriceInkWanted # {}

(***************************************************************************)
(* What the geometry claim says.                                           *)
(***************************************************************************)
\* the comma-separated fields of a command's first line, after its letters
FieldsOf(seg) ==
    LET b == seg.bytes
        q == FindCRLF(b, 1)
    IN  SplitCommas(SubSeq(b, IF KindOf(seg) = "GW" THEN 3 ELSE 2, q - 1), <<>>)

\* the x a bitmap of width w is meant to get, clamped at 0: right-aligned
\* with PAD_RIGHT in builder.rs, centred on the label in
\* build_two_product_label_with_brand
IntendedTwoX(entry, w) ==
    IF entry = "build_two_product_label_clean_centered"
    THEN Max(440 - 10 - w, 0)
    ELSE Max(TruncDiv(440 - w, 2), 0)

\* C12: whatever the rasterized sizes, a build with a usable font returns a
\* complete stream, every emitted x and y is a coordinate on the label (no
\* wrapped value), and in the two-product builds every bitmap's x is the
\* intended one clamped at 0.
C12_GeometryNeverFails ==
    (/\ build_out.pc \in {"returned", "panicked"}
     /\ build_in.entry \in Entries
     /\ build_in.font.ok) =>
        /\ build_out.pc = "returned"
        /\ Kinds[Len(Kinds)] = "P"
        /\ \A k \in DOMAIN Kinds :
              Kinds[k] \in {"GW", "B"} =>
                 LET f == FieldsOf(build_out.segs[k])
                 IN  /\ IsNumber(f[1]) /\ Len(f[1]) <= 3
                     /\ IsNumber(f[2]) /\ Len(f[2]) <= 3
                     /\ (Kinds[k] = "GW" /\ build_in.entry # "build_four_product_label_with_brand")
                           => f[1] = Dec(IntendedTwoX(build_in.entry, build_out.segs[k].w))

(***************************************************************************)
(* Shaping (bidi_then_shape in lib.rs and graphics.rs).  A text is a       *)
(* sequence of code points.  BidiInfo::new gives the paragraphs and the    *)
(* embedding level of every character; visual_runs cuts the line into      *)
(* maximal runs of one level and orders them visually (rule L2).           *)
(***************************************************************************)
Reverse(sq) == [i \in 1..Len(sq) |-> sq[Len(sq) + 1 - i]]

\* Level::is_rtl: odd levels
IsRtl(level) == level % 2 = 1

\* the maximal runs of one level, in logical order: [level, from, to]
RECURSIVE LevelRuns(_, _)
LevelRuns(levels, from) ==
    IF from > Len(levels) THEN <<>>
    ELSE LET to == CHOOSE t \in from..Len(levels) :
                     /\ \A i \in from..t : levels[i] = levels[from]
                     /\ (t = Len(levels) \/ levels[t + 1] # levels[from])
         IN  <<[level |-> levels[from], from |-> from, to |-> to]>>
             \o LevelRuns(levels, to + 1)

\* rule L2: from the highest level down to 1, reverse every maximal sequence
\* of runs at that level or higher
RECURSIVE ReverseFrom(_, _, _)
ReverseFrom(runs, k, i) ==
    IF i > Len(runs) THEN <<>>
    ELSE IF runs[i].level < k THEN <<runs[i]>> \o ReverseFrom(runs, k, i + 1)
    ELSE LET j == CHOOSE t \in i..Len(runs) :
                     /\ \A u \in i..t : runs[u].level >= k
                     /\ (t = Len(runs) \/ runs[t + 1].level < k)
         IN  Reverse(SubSeq(runs, i, j)) \o ReverseFrom(runs, k, j + 1)

RECURSIVE ReorderDown(_, _)
ReorderDown(runs, k) ==
    IF k < 1 THEN runs ELSE ReorderDown(ReverseFrom(runs, k, 1), k - 1)

\* BidiInfo::visual_runs(para, para.range): (levels, ranges) zipped
visual_runs(levels) == ReorderDown(LevelRuns(levels, 1), 2)

\* ArabicReshaper::reshape: the dual-joining letters beh (U+0628) and lam
\* (U+0644) are replaced by their presentation form for the position in the
\* joined group (isolated, final, initial, medial); other characters stay.
IsJoining(c) == c \in {1576, 1604}

FormBase(c) == IF c = 1576 THEN 65167 ELSE 65245

reshape(slice) ==
    [i \in 1..Len(slice) |->
        IF ~IsJoining(slice[i]) THEN slice[i]
        ELSE LET prev == i > 1 /\ IsJoining(slice[i - 1])
                 next == i < Len(slice) /\ IsJoining(slice[i + 1])
             IN  FormBase(slice[i])
                   + (IF prev /\ next THEN 3 ELSE IF next THEN 2 ELSE IF prev THEN 1 ELSE 0)]

\* c >= '\u{0600}' && c <= '\u{06FF}'
InArabicBlock(c) == c >= 1536 /\ c <= 1791

\* the loops of the two functions, from run i on
RECURSIVE lib_shape_runs(_, _, _)
lib_shape_runs(text, runs, i) ==
    IF i > Len(runs) THEN <<>>
    ELSE LET slice == SubSeq(text, runs[i].from, runs[i].to)
             shaped == reshape(slice)
         IN  (IF IsRtl(runs[i].level)
              THEN IF \E k \in 1..Len(slice) : InArabicBlock(slice[k])
                   THEN Reverse(shaped)
                   ELSE shaped
              ELSE slice)
             \o lib_shape_runs(text, runs, i + 1)

RECURSIVE graphics_shape_runs(_, _, _)
graphics_shape_runs(text, runs, i) ==
    IF i > Len(runs) THEN <<>>
    ELSE LET slice == SubSeq(text, runs[i].from, runs[i].to)
         IN  (IF IsRtl(runs[i].level) THEN reshape(slice) ELSE slice)
             \o graphics_shape_runs(text, runs, i + 1)

\* bidi_then_shape(text, reshaper); `in` is the text with what BidiInfo::new
\* made of it: the number of paragraphs and the levels.  info.paragraphs[0]
\* panics when there is no paragraph.
lib_bidi_then_shape(in) ==
    IF in.paragraphs = 0 THEN [panic |-> TRUE, out |-> <<>>]
    ELSE [panic |-> FALSE, out |-> lib_shape_runs(in.text, visual_runs(in.levels), 1)]

graphics_bidi_then_shape(in) ==
    IF in.paragraphs = 0 THEN [panic |-> TRUE, out |-> <<>>]
    ELSE [panic |-> FALSE, out |-> graphics_shape_runs(in.text, visual_runs(in.levels), 1)]

\* Texts with their levels: "a1"; beh lam beh; beh lam " 12 !"; "ab " beh
\* lam; alef bet (Hebrew); beh-initial lam-final (presentation forms);
\* beh; "12" after beh lam; and the empty text, for which the paragraph list
\* has no entry or one empty entry.
ShapeTexts ==
    { [text |-> <<97, 49>>, levels |-> <<0, 0>>, paragraphs |-> 1],
      [text |-> <<1576, 1604, 1576>>, levels |-> <<1, 1, 1>>, paragraphs |-> 1],
      [text |-> <<1576, 1604, 32, 49, 50, 32, 33>>,
       levels |-> <<1, 1, 1, 2, 2, 1, 1>>, paragraphs |-> 1],
      [text |-> <<97, 98, 32, 1576, 1604>>, levels |-> <<0, 0, 0, 1, 1>>, paragraphs |-> 1],
      [text |-> <<1488, 1489>>, levels |-> <<1, 1>>, paragraphs |-> 1],
      [text |-> <<65169, 65246>>, levels |-> <<1, 1>>, paragraphs |-> 1],
      [text |-> <<1576>>, levels |-> <<1>>, paragraphs |-> 1],
      [text |-> <<1576, 1604, 49, 50>>, levels |-> <<1, 1, 2, 2>>, paragraphs |-> 1],
      [text |-> <<>>, levels |-> <<>>, paragraphs |-> 0],
      [text |-> <<>>, levels |-> <<>>, paragraphs |-> 1] }

\* What may follow in a right-to-left paragraph, with the levels it gets
\* there: lam beh; " 12"; " !"; alef (Hebrew)
RtlTokens ==
    { [text |-> <<1604, 1576>>, levels |-> <<1, 1>>],
      [text |-> <<32, 49, 50>>, levels |-> <<1, 2, 2>>],
      [text |-> <<32, 33>>, levels |-> <<1, 1>>],
      [text |-> <<1488>>, levels |-> <<1>>] }

MaxTokens == 2

InitShape ==
    /\ code = <<>>
    /\ edits = 0
    /\ ean_calls = <<>>
    /\ img = [w |-> 0, h |-> 0, bg |-> 255, put |-> <<>>]
    /\ puts = 0
    /\ pack = [pc |-> "idle"]
    /\ center = [fn |-> "none"]
    /\ build_in = [entry |-> "none"]
    /\ build_out = [pc |-> "idle"]
    /\ render = [pc |-> "idle"]
    /\ \E t \in ShapeTexts :
          shape = [pc |-> "text", in |-> t, tokens |-> 0]
    /\ prn = [pc |-> "idle"]

NotShape == <<code, edits, ean_calls, img, puts, pack, center, build_in, build_out,
              render, prn>>

\* the caller's text grows by a token (right-to-left paragraphs only)
AppendToken(t) ==
    /\ shape.pc = "text" /\ shape.tokens < MaxTokens
    /\ shape.in.levels # <<>> /\ shape.in.levels[1] = 1
    /\ shape' = [shape EXCEPT !.in.text = @ \o t.text,
                              !.in.levels = @ \o t.levels,
                              !.tokens = @ + 1]
    /\ UNCHANGED NotShape

ShapeOutcome(fn, in, r) ==
    [pc |-> IF r.panic THEN "panicked" ELSE "returned", fn |-> fn, in |-> in,
     runs |-> visual_runs(in.levels), out |-> r.out]

ShapeLib ==
    /\ shape.pc = "text"
    /\ shape' = ShapeOutcome("lib_bidi_then_shape", shape.in, lib_bidi_then_shape(shape.in))
    /\ UNCHANGED NotShape

ShapeGraphics ==
    /\ shape.pc = "text"
    /\ shape' = ShapeOutcome("graphics_bidi_then_shape", shape.in,
                             graphics_bidi_then_shape(shape.in))
    /\ UNCHANGED NotShape

NextShape ==
    \/ \E t \in RtlTokens : AppendToken(t)
    \/ ShapeLib
    \/ ShapeGraphics

SpecShape == InitShape /\ [][NextShape]_vars

(***************************************************************************)
(* What the shaping claims say.                                            *)
(***************************************************************************)
HasArabic(slice) == \E k \in 1..Len(slice) : slice[k] >= 1536 /\ slice[k] <= 1791

\* what a run contributes: unchanged when left-to-right; reshaped, and
\* reversed iff it has a character in U+0600..U+06FF, when right-to-left
RunWanted(text, run) ==
    LET slice == SubSeq(text, run.from, run.to)
    IN  IF run.level % 2 = 0 THEN slice
        ELSE IF HasArabic(slice) THEN Reverse(reshape(slice))
        ELSE reshape(slice)

RECURSIVE RunsWanted(_, _, _)
RunsWanted(text, runs, i) ==
    IF i > Len(runs) THEN <<>>
    ELSE RunWanted(text, runs[i]) \o RunsWanted(text, runs, i + 1)

\* C13: whichever bidi_then_shape is called, the result is the runs in
\* visual order, a left-to-right run unchanged, a right-to-left run reshaped
\* and reversed iff it has a character in U+0600..U+06FF.
C13_ReverseIffArabicBlock ==
    shape.pc = "returned" => shape.out = RunsWanted(shape.in.text, shape.runs, 1)

\* C14: shaping the empty text returns the empty text and never fails, also
\* when the paragraph list is empty.
C14_EmptyTextShapesToEmpty ==
    (shape.pc \in {"returned", "panicked"} /\ shape.in.text = <<>>) =>
        /\ shape.pc = "returned"
        /\ shape.out = <<>>

(***************************************************************************)
(* What the barcode claim says.                                            *)
(***************************************************************************)
\* the quoted payload of a B command: from its first quote to the quote
\* that ends the line
QuotedPayload(seg) ==
    LET b == seg.bytes
        q1 == CHOOSE i \in 1..Len(b) : b[i] = 34 /\ \A j \in 1..(i - 1) : b[j] # 34
    IN  SubSeq(b, q1 + 1, Len(b) - 3)

\* the products' barcodes as the caller passed them
BarcodesIn == { build_in.products[i].barcode : i \in DOMAIN build_in.products }

\* C15: in every emitted stream the quoted payload of every B command is 12
\* or 13 ASCII digits, whatever the barcode strings passed in: it is what
\* ensure_valid_ean13 makes of one of them (its first 12 digits, or its
\* digits padded with '0' to 12).
C15_BarcodePayloadIsDigits ==
    (build_out.pc = "returned" /\ build_in.entry \in Entries) =>
        \A k \in DOMAIN Kinds :
            Kinds[k] = "B" =>
                LET payload == QuotedPayload(build_out.segs[k])
                IN  /\ Len(payload) \in {12, 13}
                    /\ \A i \in 1..Len(payload) : payload[i] >= 48 /\ payload[i] <= 57
                    /\ \E bc \in BarcodesIn :
                          LET ds == AsciiDigitsOf(bc)
                          IN  payload = IF Len(ds) >= 12 THEN SubSeq(ds, 1, 12)
                                        ELSE ds \o [i \in 1..(12 - Len(ds)) |-> 48]

(***************************************************************************)
(* What the bold claim says.                                               *)
(***************************************************************************)
\* the ink of a glyph run painted from column ox: the base pass and, with
\* bold, the pass one pixel to the right, clipped to a canvas w wide, h high
BoldInkWanted(run, ox, threshold, bold, w, h) ==
    { c \in { <<g.x + ox + dx, g.y>> :
                g \in { r \in run : r.v > threshold },
                dx \in (IF bold THEN {0, 1} ELSE {0}) } :
        c[1] < w /\ c[2] < h }

\* C16: every painted text's ink is its base pass united, when bold is on,
\* with the pass shifted right by one pixel, clipped to the canvas: the
\* price and the name in render_name_price_space_between, the line in
\* render_arabic_line_tight_1bit (always bold).
C16_BoldIsUnionOfShiftedPasses ==
    /\ NamePriceCall =>
          LET p == render.painted
          IN  /\ p.price_px = BoldInkWanted(render.price, 5, 50, render.bold,
                                            p.img.w, p.img.h)
              /\ p.name_px = BoldInkWanted(render.name, p.name_x, 50, render.bold,
                                           p.img.w, p.img.h)
              /\ InkOf(p.img) = p.price_px \cup p.name_px
    /\ render.pc = "line" =>
          InkOf(render.img) = BoldInkWanted(render.text, render.pad_lr, 65, TRUE,
                                            render.img.w, render.img.h)

(***************************************************************************)
(* printer.rs send_raw_to_printer.  Each spooler call succeeds or fails as *)
(* the spooler decides; the calls made are logged in order.                *)
(***************************************************************************)
MaxJobs == 2
DataLens == {0, 1, 4}

PrnOk == [ok |-> TRUE, err |-> ""]
PrnErr(msg) == [ok |-> FALSE, err |-> msg]

PrnCall(api, ok) == [api |-> api, ok |-> ok]

\* lines 34; 39-40; 52-54: what is called on the way out
unwind_after_doc_failure == << PrnCall("ClosePrinter", TRUE) >>

unwind_after_page_failure_close_only == << PrnCall("ClosePrinter", TRUE) >>

unwind_after_page_failure ==
    << PrnCall("EndDocPrinter", TRUE), PrnCall("ClosePrinter", TRUE) >>

unwind_after_write ==
    << PrnCall("EndPagePrinter", TRUE), PrnCall("EndDocPrinter", TRUE),
       PrnCall("ClosePrinter", TRUE) >>

InitPrinter ==
    /\ code = <<>>
    /\ edits = 0
    /\ ean_calls = <<>>
    /\ img = [w |-> 0, h |-> 0, bg |-> 255, put |-> <<>>]
    /\ puts = 0
    /\ pack = [pc |-> "idle"]
    /\ center = [fn |-> "none"]
    /\ build_in = [entry |-> "none"]
    /\ build_out = [pc |-> "idle"]
    /\ render = [pc |-> "idle"]
    /\ shape = [pc |-> "idle"]
    /\ \E windows \in BOOLEAN :
          prn = [pc |-> "idle", windows |-> windows, len |-> 0, calls |-> <<>>,
                 result |-> PrnOk, jobs |-> 0, earlier |-> <<>>]

NotPrinter == <<code, edits, ean_calls, img, puts, pack, center, build_in, build_out,
                render, shape>>

PrnReturn(calls, result) ==
    [prn EXCEPT !.pc = "done", !.calls = calls, !.result = result]

\* send_raw_to_printer(printer_name, data) is called: on Windows it goes on
\* to OpenPrinterW, elsewhere it returns its error at once
SendRaw(len) ==
    /\ prn.pc \in {"idle", "done"} /\ prn.jobs < MaxJobs
    /\ LET earlier == IF prn.pc = "done" THEN Append(prn.earlier, prn.result.err)
                      ELSE prn.earlier
           p == [prn EXCEPT !.len = len, !.calls = <<>>, !.result = PrnOk,
                            !.jobs = @ + 1, !.earlier = earlier]
       IN  prn' = IF prn.windows THEN [p EXCEPT !.pc = "open"]
                  ELSE [p EXCEPT !.pc = "done",
                                 !.result = PrnErr("send_raw_to_printer is only supported on Windows (uses Win32 spooler)")]
    /\ UNCHANGED NotPrinter

\* lines 22-24
OpenPrinterW(ok) ==
    /\ prn.pc = "open"
    /\ LET calls == Append(prn.calls, PrnCall("OpenPrinterW", ok))
       IN  prn' = IF ok THEN [prn EXCEPT !.pc = "startdoc", !.calls = calls]
                  ELSE PrnReturn(calls, PrnErr("OpenPrinterW failed"))
    /\ UNCHANGED NotPrinter

\* lines 32-36
StartDocPrinterW(ok) ==
    /\ prn.pc = "startdoc"
    /\ LET calls == Append(prn.calls, PrnCall("StartDocPrinterW", ok))
       IN  prn' = IF ok THEN [prn EXCEPT !.pc = "startpage", !.calls = calls]
                  ELSE PrnReturn(calls \o unwind_after_doc_failure,
                                 PrnErr("StartDocPrinterW failed"))
    /\ UNCHANGED NotPrinter

\* lines 38-42
StartPagePrinter(ok) ==
    /\ prn.pc = "startpage"
    /\ LET calls == Append(prn.calls, PrnCall("StartPagePrinter", ok))
       IN  prn' = IF ok THEN [prn EXCEPT !.pc = "write", !.calls = calls]
                  ELSE PrnReturn(calls \o unwind_after_page_failure,
                                 PrnErr("StartPagePrinter failed"))
    /\ UNCHANGED NotPrinter

\* lines 44-59: one WritePrinter, the unwinding, then the result
WritePrinter(ok) ==
    /\ prn.pc = "write"
    /\ LET calls == Append(prn.calls, PrnCall("WritePrinter", ok)) \o unwind_after_write
       IN  prn' = PrnReturn(calls, IF ok THEN PrnOk ELSE PrnErr("WritePrinter failed"))
    /\ UNCHANGED NotPrinter

NextPrinter ==
    \/ \E len \in DataLens : SendRaw(len)
    \/ \E ok \in BOOLEAN : OpenPrinterW(ok)
    \/ \E ok \in BOOLEAN : StartDocPrinterW(ok)
    \/ \E ok \in BOOLEAN : StartPagePrinter(ok)
    \/ \E ok \in BOOLEAN : WritePrinter(ok)

SpecPrinter == InitPrinter /\ [][NextPrinter]_vars

(***************************************************************************)
(* What the printer claim says.                                            *)
(***************************************************************************)
PrnPositions(api) == { i \in 1..Len(prn.calls) : prn.calls[i].api = api }
PrnCount(api) == Cardinality(PrnPositions(api))
PrnSucceeded(api) == \E i \in PrnPositions(api) : prn.calls[i].ok
PrnFailed(api) == \E i \in PrnPositions(api) : ~prn.calls[i].ok
PrnBefore(a, b) == \A i \in PrnPositions(a), j \in PrnPositions(b) : i < j

\* C17: when send_raw_to_printer has returned: after OpenPrinterW succeeded
\* ClosePrinter was called exactly once, and last; after StartDocPrinterW
\* succeeded EndDocPrinter was called (once) before ClosePrinter; after
\* StartPagePrinter succeeded EndPagePrinter was called (once) before
\* EndDocPrinter; nothing is unwound that was not started; WritePrinter was
\* called at most once; and the result is Ok when every step succeeded and
\* otherwise the error of the step that failed, each its own.
C17_FullyUnwound ==
    prn.pc = "done" =>
        /\ PrnCount("ClosePrinter") = (IF PrnSucceeded("OpenPrinterW") THEN 1 ELSE 0)
        /\ PrnSucceeded("OpenPrinterW") =>
              prn.calls[Len(prn.calls)].api = "ClosePrinter"
        /\ PrnCount("EndDocPrinter") = (IF PrnSucceeded("StartDocPrinterW") THEN 1 ELSE 0)
        /\ PrnBefore("EndDocPrinter", "ClosePrinter")
        /\ PrnCount("EndPagePrinter") = (IF PrnSucceeded("StartPagePrinter") THEN 1 ELSE 0)
        /\ PrnBefore("EndPagePrinter", "EndDocPrinter")
        /\ PrnCount("WritePrinter") <= 1
        /\ PrnBefore("WritePrinter", "EndPagePrinter")
        /\ \A api \in {"OpenPrinterW", "StartDocPrinterW", "StartPagePrinter"} :
              PrnCount(api) <= 1
        /\ prn.result.ok <=> PrnSucceeded("WritePrinter")
        /\ \A api \in {"OpenPrinterW", "StartDocPrinterW", "StartPagePrinter",
                       "WritePrinter"} :
              PrnFailed(api) <=> prn.result = PrnErr(api \o " failed")

\* a second job whose write failed after its page was started: everything
\* was unwound in order and the write error returned
C17_Witness ==
    /\ prn.pc = "done"
    /\ prn.jobs = 2
    /\ prn.result = PrnErr("WritePrinter failed")
    /\ prn.calls = << PrnCall("OpenPrinterW", TRUE), PrnCall("StartDocPrinterW", TRUE),
                      PrnCall("StartPagePrinter", TRUE), PrnCall("WritePrinter", FALSE),
                      PrnCall("EndPagePrinter", TRUE), PrnCall("EndDocPrinter", TRUE),
                      PrnCall("ClosePrinter", TRUE) >>

=============================================================================
